---- MODULE Spec2Model ----
(***************************************************************************)
(* Model of the statistical comparison and aggregation engine of           *)
(* service-mesh-benchmark and of the job tracking of its API:              *)
(*   src/generate-report.py            calculate_percentile,               *)
(*                                     aggregate_metrics                   *)
(*   src/src/analysis/statistical_analysis.py                              *)
(*                                     calculate_descriptive_statistics,   *)
(*                                     compare_two_samples and the         *)
(*                                     computed fields of its result,      *)
(*                                     compare_multiple_meshes,            *)
(*                                     detect_outliers_iqr,                *)
(*                                     detect_outliers_zscore,             *)
(*                                     generate_statistical_report         *)
(*   src/src/api/state.py              the job table                       *)
(*   src/src/api/endpoints/benchmarks.py                                   *)
(*                                     start_benchmark, cancel_job, the    *)
(*                                     status requests and the background  *)
(*                                     task run_benchmark_script           *)
(*   src/src/api/persistence.py        JobPersistence.save_job,            *)
(*                                     cleanup_old_jobs                    *)
(*                                                                         *)
(* Numbers.  A float is modelled as an exact fraction <<n, d>> in lowest   *)
(* terms with d >= 0.  d > 0 is a finite value, <<0, 0>> is NaN (the       *)
(* IEEE result of 0/0) and <<1, 0>>, <<-1, 0>> are +inf and -inf.  Rounding *)
(* is not modelled: every statement below is about the exact value the     *)
(* code's formula denotes.  A square root is never taken in the model; a   *)
(* quantity the code obtains with np.sqrt is carried as its square.        *)
(* Optional fields hold None (the empty sequence) or Some(x) (<<x>>).      *)
(***************************************************************************)
EXTENDS Integers, Sequences, FiniteSets, TLC

----------------------------------------------------------------------------
(* Bounds of the model. *)

\* longest list of records handed to aggregate_metrics
MaxRuns == 4
\* longest sample handed to compare_two_samples
MaxLen == 3
\* longest sample handed to calculate_descriptive_statistics and to the
\* outlier detectors
MaxSample == 4
\* largest numerator of a cohens_d field, in tenths
MaxTenths == 10
\* longest sample of a group handed to compare_multiple_meshes
MaxGroupLen == 2
\* longest list of records of each of several calls of aggregate_metrics
MaxCallRuns == 2
\* longest sample handed to generate_statistical_report
MaxReportLen == 2
\* most requests to start a benchmark
MaxJobs == 2
\* last tick of the clock
MaxTime == 1
\* most days of retention asked of cleanup_old_jobs
MaxDays == 1

----------------------------------------------------------------------------
(* Floats as exact fractions. *)

Abs(n) == IF n < 0 THEN -n ELSE n

RECURSIVE GCD(_, _)
GCD(a, b) == IF b = 0 THEN a ELSE GCD(b, a % b)

Sign(n) == IF n < 0 THEN -1 ELSE IF n > 0 THEN 1 ELSE 0

\* the float n/d; a zero divisor gives the IEEE results nan and +-inf
Frac(n, d) ==
    IF d = 0 THEN <<Sign(n), 0>>
    ELSE LET g == GCD(Abs(n), Abs(d))
             s == IF d < 0 THEN -1 ELSE 1
         IN  <<(s * n) \div g, (s * d) \div g>>

F(n) == <<n, 1>>
NaN == <<0, 0>>
PosInf == <<1, 0>>

isnan(x) == x[2] = 0 /\ x[1] = 0
isinf(x) == x[2] = 0 /\ x[1] # 0
isfinite(x) == x[2] # 0

\* Python truth value of a float: only 0.0 is false (nan and inf are true)
truthy(x) == ~(x[2] # 0 /\ x[1] = 0)

\* arithmetic on finite floats
Add(x, y) == Frac(x[1] * y[2] + y[1] * x[2], x[2] * y[2])
Sub(x, y) == Frac(x[1] * y[2] - y[1] * x[2], x[2] * y[2])
Mul(x, y) == Frac(x[1] * y[1], x[2] * y[2])
Neg(x) == <<-x[1], x[2]>>
\* numpy division: x / 0 is nan or +-inf, never an exception
NpDiv(x, y) == Frac(x[1] * y[2], x[2] * y[1])
Lt(x, y) == x[1] * y[2] < y[1] * x[2]
Le(x, y) == x[1] * y[2] <= y[1] * x[2]
IsZero(x) == x[2] # 0 /\ x[1] = 0
\* int(x) for a finite float: truncation toward zero
Trunc(x) == Sign(x[1]) * (Abs(x[1]) \div x[2])

None == <<>>
Some(x) == <<x>>

----------------------------------------------------------------------------
(* Sequences of floats. *)

RECURSIVE Sum(_)
Sum(s) == IF s = <<>> THEN F(0) ELSE Add(Head(s), Sum(Tail(s)))

RECURSIVE Insert(_, _)
Insert(x, s) ==
    IF s = <<>> THEN <<x>>
    ELSE IF Le(x, Head(s)) THEN <<x>> \o s
    ELSE <<Head(s)>> \o Insert(x, Tail(s))

\* sorted(data), np.sort
RECURSIVE sorted(_)
sorted(s) == IF s = <<>> THEN <<>> ELSE Insert(Head(s), sorted(Tail(s)))

\* np.mean / statistics.mean of a non-empty finite sample
Mean(s) == NpDiv(Sum(s), F(Len(s)))

\* np.var(arr, ddof=1): sum of squared deviations over N-1 (nan when N = 1)
RECURSIVE SumSqDev(_, _)
SumSqDev(s, m) ==
    IF s = <<>> THEN F(0)
    ELSE Add(Mul(Sub(Head(s), m), Sub(Head(s), m)), SumSqDev(Tail(s), m))

Var(s) == NpDiv(SumSqDev(s, Mean(s)), F(Len(s) - 1))

\* faulty variant: the step to the next value is not relative to the lower one
InterpolateNoDiff(a, p) ==
    LET n  == Len(a)
        lo == ((n - 1) * p) \div 100
        fr == Frac(((n - 1) * p) % 100, 100)
    IN  IF lo + 1 >= n THEN a[n]
        ELSE Add(a[lo + 1], Mul(fr, a[lo + 2]))

\* np.percentile(arr, p), default method "linear": the value at the
\* fractional rank (N-1)*p/100 of the sorted data, interpolated
Interpolate(a, p) ==
    LET n  == Len(a)
        lo == ((n - 1) * p) \div 100
        fr == Frac(((n - 1) * p) % 100, 100)
    IN  IF lo + 1 >= n THEN a[n]
        ELSE Add(a[lo + 1], Mul(fr, Sub(a[lo + 2], a[lo + 1])))

NpPercentile(s, p) == Interpolate(sorted(s), p)

\* np.median
NpMedian(s) == NpPercentile(s, 50)

----------------------------------------------------------------------------
(* Results of calls that may raise. *)

\* exc is the exception's class ("" when the call returned), msg its message
Ok(v) == [exc |-> "", msg |-> "", val |-> <<v>>]
Raise(e, m) == [exc |-> e, msg |-> m, val |-> <<>>]
Raised(r) == r.exc # ""
Value(r) == r.val[1]

----------------------------------------------------------------------------
(* src/generate-report.py: calculate_percentile *)

\* nearest-rank: sorted_data[min(int(len * percentile / 100), len - 1)]
calculate_percentile(data, percentile) ==
    IF data = <<>> THEN None
    ELSE LET sorted_data == sorted(data)
             index == (Len(sorted_data) * percentile) \div 100
         IN  Some(sorted_data[IF index < Len(sorted_data) - 1
                               THEN index + 1 ELSE Len(sorted_data)])

----------------------------------------------------------------------------
(* src/src/analysis/statistical_analysis.py *)

\* faulty variant: infinite values are let through
HasNaN(data) == \E i \in 1..Len(data) : isnan(data[i])

\* np.any(np.isnan(arr)) or np.any(np.isinf(arr))
HasNonFinite(data) == \E i \in 1..Len(data) : isnan(data[i]) \/ isinf(data[i])

\* The DescriptiveStatistics record.  std_dev is carried as its square
\* std_dev_sq (np.std(arr, ddof=1) squared), standard_error as
\* standard_error_sq = std_dev^2 / N and coefficient_of_variation =
\* std_dev / mean as the triple c + k * sqrt(r) with c = 0, k = 1 / mean and
\* r = std_dev_sq (0 when the mean is 0).
DescriptiveStatistics(data) ==
    LET arr == sorted(data)
        var == Var(data)
    IN  [ mean              |-> Mean(data),
          median            |-> Interpolate(arr, 50),
          std_dev_sq        |-> var,
          variance          |-> var,
          min_value         |-> arr[1],
          max_value         |-> arr[Len(arr)],
          sample_size       |-> Len(data),
          p25               |-> Interpolate(arr, 25),
          p75               |-> Interpolate(arr, 75),
          p90               |-> Interpolate(arr, 90),
          p95               |-> Interpolate(arr, 95),
          p99               |-> Interpolate(arr, 99),
          coefficient_of_variation |->
              IF ~IsZero(Mean(data))
              THEN [c |-> F(0), k |-> NpDiv(F(1), Mean(data)), r |-> var]
              ELSE [c |-> F(0), k |-> F(0), r |-> F(0)],
          standard_error_sq |-> NpDiv(var, F(Len(data))) ]

calculate_descriptive_statistics(data) ==
    IF data = <<>> THEN Raise("ValueError", "Data cannot be empty")
    ELSE IF HasNonFinite(data)
         THEN Raise("ValueError", "Data contains NaN or infinite values")
    ELSE Ok(DescriptiveStatistics(data))

\* pooled_std squared: ((n1-1)*var1 + (n2-1)*var2) / (n1+n2-2)
PooledVariance(baseline_stats, mesh_stats) ==
    LET n1 == baseline_stats.sample_size
        n2 == mesh_stats.sample_size
    IN  NpDiv(Add(Mul(F(n1 - 1), baseline_stats.variance),
                  Mul(F(n2 - 1), mesh_stats.variance)),
              F(n1 + n2 - 2))

\* faulty variant: the baseline's deviation in place of the pooled one
CohensDOfBaseline(baseline_stats, mesh_stats) ==
    LET pv == baseline_stats.variance
    IN  IF Lt(F(0), pv)
        THEN [num |-> Sub(mesh_stats.mean, baseline_stats.mean), den_sq |-> pv]
        ELSE [num |-> F(0), den_sq |-> F(1)]

\* Cohen's d = (mesh.mean - baseline.mean) / pooled_std if pooled_std > 0
\* else 0.0, carried as the pair (numerator, pooled_std squared): the value
\* is num / sqrt(den_sq).
CohensD(baseline_stats, mesh_stats) ==
    LET pv == PooledVariance(baseline_stats, mesh_stats)
    IN  IF Lt(F(0), pv)
        THEN [num |-> Sub(mesh_stats.mean, baseline_stats.mean), den_sq |-> pv]
        ELSE [num |-> F(0), den_sq |-> F(1)]

\* Welch-Satterthwaite: the two operands of the final Python float division
WelchNum(s1_sq, n1, s2_sq, n2) ==
    LET a == NpDiv(s1_sq, F(n1))
        b == NpDiv(s2_sq, F(n2))
    IN  Mul(Add(a, b), Add(a, b))

WelchDen(s1_sq, n1, s2_sq, n2) ==
    LET a == NpDiv(s1_sq, F(n1))
        b == NpDiv(s2_sq, F(n2))
    IN  Add(NpDiv(Mul(a, a), F(n1 - 1)), NpDiv(Mul(b, b), F(n2 - 1)))

\* stats.ttest_ind(baseline, mesh, equal_var): t = (mean1 - mean2) / denom
\* with denom^2 the pooled variance times (1/n1 + 1/n2), or var1/n1 + var2/n2
\* without equal variances.  Carried like cohens_d: the value is
\* num / sqrt(den_sq).
TStatistic(baseline_stats, mesh_stats, equal_variance) ==
    LET n1 == baseline_stats.sample_size
        n2 == mesh_stats.sample_size
    IN  [ num    |-> Sub(baseline_stats.mean, mesh_stats.mean),
          den_sq |-> IF equal_variance
                     THEN Mul(PooledVariance(baseline_stats, mesh_stats),
                              Add(Frac(1, n1), Frac(1, n2)))
                     ELSE Add(NpDiv(baseline_stats.variance, F(n1)),
                              NpDiv(mesh_stats.variance, F(n2))) ]

\* The two-sided p-value of ttest_ind is 2 * sf(|t|, df) of Student's
\* distribution; it is carried as the pair (t squared, df) it is computed
\* from.  Without equal variances df is the Welch-Satterthwaite value, with
\* nan replaced by 1.
PValue(baseline_stats, mesh_stats, equal_variance) ==
    LET n1 == baseline_stats.sample_size
        n2 == mesh_stats.sample_size
        t  == TStatistic(baseline_stats, mesh_stats, equal_variance)
        df == NpDiv(WelchNum(baseline_stats.variance, n1, mesh_stats.variance, n2),
                    WelchDen(baseline_stats.variance, n1, mesh_stats.variance, n2))
    IN  [ t_sq |-> NpDiv(Mul(t.num, t.num), t.den_sq),
          df   |-> IF equal_variance THEN F(n1 + n2 - 2)
                   ELSE IF isnan(df) THEN F(1) ELSE df ]

\* faulty variant: "and" where line 214 has "or"
TooFewObservationsBoth(baseline, mesh) == Len(baseline) < 2 /\ Len(mesh) < 2

\* line 214: len(baseline) < 2 or len(mesh) < 2
TooFewObservations(baseline, mesh) == Len(baseline) < 2 \/ Len(mesh) < 2

\* compare_two_samples(baseline, mesh, alpha, equal_variance)
compare_two_samples(baseline, mesh, equal_variance) ==
    IF TooFewObservations(baseline, mesh)
    THEN Raise("ValueError", "Each sample must have at least 2 observations")
    ELSE
      LET b == calculate_descriptive_statistics(baseline)
          m == calculate_descriptive_statistics(mesh)
      IN  IF Raised(b) THEN b
          ELSE IF Raised(m) THEN m
          ELSE
            LET baseline_stats == Value(b)
                mesh_stats == Value(m)
                n1 == Len(baseline)
                n2 == Len(mesh)
                num == WelchNum(baseline_stats.variance, n1, mesh_stats.variance, n2)
                den == WelchDen(baseline_stats.variance, n1, mesh_stats.variance, n2)
            IN  IF ~equal_variance /\ IsZero(den)
                THEN Raise("ZeroDivisionError", "float division by zero")
                ELSE Ok([ baseline_stats     |-> baseline_stats,
                          mesh_stats         |-> mesh_stats,
                          t_statistic        |-> TStatistic(baseline_stats, mesh_stats,
                                                            equal_variance),
                          p_value            |-> PValue(baseline_stats, mesh_stats,
                                                        equal_variance),
                          degrees_of_freedom |-> IF equal_variance THEN n1 + n2 - 2
                                                 ELSE Trunc(NpDiv(num, den)),
                          cohens_d           |-> CohensD(baseline_stats, mesh_stats),
                          test_type          |-> IF equal_variance
                                                 THEN "two_sample_t_test"
                                                 ELSE "welch_t_test" ])

\* faulty variant: the baseline mean is not subtracted
percent_difference_ratio(self) ==
    IF IsZero(self.baseline_stats.mean) THEN F(0)
    ELSE Mul(NpDiv(self.mesh_stats.mean, self.baseline_stats.mean), F(100))

\* StatisticalComparison.percent_difference
percent_difference(self) ==
    IF IsZero(self.baseline_stats.mean) THEN F(0)
    ELSE Mul(NpDiv(Sub(self.mesh_stats.mean, self.baseline_stats.mean),
                   self.baseline_stats.mean),
             F(100))

----------------------------------------------------------------------------
(* Values c + k*sqrt(r).  The bounds the code computes from a standard     *)
(* deviation or a standard error (mean - threshold*std, mean + 1.96*se)    *)
(* are carried as the triple (c, k, r) with r the square of the deviation, *)
(* and compared exactly, by signs and squares.                             *)

Surd(c, k, r) == [c |-> c, k |-> k, r |-> r]
\* a float with no root part
Rat(q) == Surd(q, F(0), F(0))

SgnF(x) == Sign(x[1])
AbsF(x) == <<Abs(x[1]), x[2]>>

\* sign of a/b - c/d for a, c >= 0 and b, d > 0, by continued fractions (no
\* product is formed)
RECURSIVE CmpPos(_, _, _, _)
CmpPos(a, b, c, d) ==
    IF a \div b # c \div d THEN Sign((a \div b) - (c \div d))
    ELSE IF a % b = 0 \/ c % d = 0 THEN Sign((a % b) - (c % d))
    ELSE CmpPos(d, c % d, b, a % b)

\* sign of x - y for two values c + k*sqrt(r)
SurdSign(x, y) ==
    LET q  == IF ~IsZero(x.k) THEN AbsF(x.k)
              ELSE IF ~IsZero(y.k) THEN AbsF(y.k) ELSE F(1)
        \* (x - y) / q  =  sa*sqrt(A) + sb*sqrt(B) - E
        xk == NpDiv(x.k, q)
        yk == NpDiv(y.k, q)
        A  == Mul(Mul(xk, xk), x.r)
        B  == Mul(Mul(yk, yk), y.r)
        E  == NpDiv(Sub(y.c, x.c), q)
        sa == SgnF(xk) * SgnF(x.r)
        sb == - SgnF(yk) * SgnF(y.r)
        ss == IF sa = sb THEN sa
              ELSE IF sa = 0 THEN sb
              ELSE IF sb = 0 THEN sa
              ELSE sa * SgnF(Sub(A, B))
        se == SgnF(E)
        \* sign of (sa*sqrt(A) + sb*sqrt(B))^2 - E^2
        G  == Sub(Sub(Mul(E, E), A), B)
        sp == sa * sb
        sg == SgnF(G)
        T  == IF sp = 0 THEN - sg
              ELSE IF sp # sg THEN Sign(sp - sg)
              ELSE LET l == NpDiv(Mul(F(2), B), AbsF(G))
                       r == NpDiv(AbsF(G), Mul(F(2), A))
                   IN  sp * CmpPos(l[1], l[2], r[1], r[2])
    IN  IF ss # se THEN Sign(ss - se)
        ELSE IF ss = 0 THEN 0
        ELSE ss * T

SurdLt(x, y) == SurdSign(x, y) < 0

----------------------------------------------------------------------------
(* Computed fields of DescriptiveStatistics and StatisticalComparison. *)

\* DescriptiveStatistics.confidence_interval_95:
\* (mean - 1.96 * standard_error, mean + 1.96 * standard_error)
confidence_interval_95(stats) ==
    << Surd(stats.mean, Frac(-196, 100), stats.standard_error_sq),
       Surd(stats.mean, Frac(196, 100), stats.standard_error_sq) >>

\* abs(cohens_d) squared
AbsDSq(cohens_d) == NpDiv(Mul(cohens_d.num, cohens_d.num), cohens_d.den_sq)

\* faulty variant: a boundary value falls in the lower class
effect_size_interpretation_le(self) ==
    LET abs_d_sq == AbsDSq(self.cohens_d)
    IN  IF Le(abs_d_sq, Frac(4, 100)) THEN "negligible"
        ELSE IF Le(abs_d_sq, Frac(25, 100)) THEN "small"
        ELSE IF Le(abs_d_sq, Frac(64, 100)) THEN "medium"
        ELSE "large"

\* StatisticalComparison.effect_size_interpretation: abs_d against 0.2, 0.5
\* and 0.8, compared through the squares
effect_size_interpretation(self) ==
    LET abs_d_sq == AbsDSq(self.cohens_d)
    IN  IF Lt(abs_d_sq, Frac(4, 100)) THEN "negligible"
        ELSE IF Lt(abs_d_sq, Frac(25, 100)) THEN "small"
        ELSE IF Lt(abs_d_sq, Frac(64, 100)) THEN "medium"
        ELSE "large"

\* faulty variant: intervals that only touch count as apart
confidence_intervals_apart_or_touching(self) ==
    LET baseline_ci == confidence_interval_95(self.baseline_stats)
        mesh_ci == confidence_interval_95(self.mesh_stats)
    IN  ~(\/ SurdSign(baseline_ci[2], mesh_ci[1]) <= 0
          \/ SurdSign(mesh_ci[2], baseline_ci[1]) <= 0)

\* StatisticalComparison.confidence_intervals_overlap
confidence_intervals_overlap(self) ==
    LET baseline_ci == confidence_interval_95(self.baseline_stats)
        mesh_ci == confidence_interval_95(self.mesh_stats)
    IN  ~(\/ SurdLt(baseline_ci[2], mesh_ci[1])
          \/ SurdLt(mesh_ci[2], baseline_ci[1]))

----------------------------------------------------------------------------
(* Outlier detection, modelled for the non-empty finite samples. *)

\* faulty variant: positions counted from 1
WhereFromOne(mask) ==
    SelectSeq([i \in 1..Len(mask) |-> i], LAMBDA i : mask[i])

\* np.where(mask)[0]: the positions, counted from 0, where the mask is true
Where(mask) ==
    SelectSeq([i \in 1..Len(mask) |-> i - 1], LAMBDA i : mask[i + 1])

\* arr[mask]
RECURSIVE Masked(_, _)
Masked(arr, mask) ==
    IF arr = <<>> THEN <<>>
    ELSE (IF Head(mask) THEN <<Head(arr)>> ELSE <<>>)
         \o Masked(Tail(arr), Tail(mask))

\* the OutlierAnalysis record; the two bounds are values c + k*sqrt(r)
OutlierAnalysis(method, data, outlier_indices, outlier_values, lower_bound, upper_bound) ==
    [ method          |-> method,
      outliers_count  |-> Len(outlier_indices),
      outliers_percent |-> IF data # <<>>
                           THEN Mul(NpDiv(F(Len(outlier_indices)), F(Len(data))),
                                    F(100))
                           ELSE F(0),
      outlier_indices |-> outlier_indices,
      outlier_values  |-> outlier_values,
      lower_bound     |-> lower_bound,
      upper_bound     |-> upper_bound ]

detect_outliers_iqr(data, multiplier) ==
    LET arr == data
        q1  == NpPercentile(arr, 25)
        q3  == NpPercentile(arr, 75)
        iqr == Sub(q3, q1)
        lower_bound == Sub(q1, Mul(multiplier, iqr))
        upper_bound == Add(q3, Mul(multiplier, iqr))
        outlier_mask == [i \in 1..Len(arr) |->
                           Lt(arr[i], lower_bound) \/ Lt(upper_bound, arr[i])]
    IN  OutlierAnalysis("iqr", data, Where(outlier_mask),
                        Masked(arr, outlier_mask),
                        Rat(lower_bound), Rat(upper_bound))

\* faulty variant: the N-1 divisor, nan for a single value
NpStdSqSample(arr) == Var(arr)

\* np.std(arr) squared: the default ddof=0 divides by N
NpStdSq(arr) == NpDiv(SumSqDev(arr, Mean(arr)), F(Len(arr)))

\* z > threshold for z = sqrt(z_sq) >= 0
ZScoreGt(z_sq, threshold) ==
    Lt(threshold, F(0)) \/ Lt(Mul(threshold, threshold), z_sq)

detect_outliers_zscore(data, threshold) ==
    LET arr == data
        mean == Mean(arr)
        std_sq == NpStdSq(arr)
    IN  IF IsZero(std_sq)
        THEN OutlierAnalysis("zscore", data, <<>>, <<>>, Rat(mean), Rat(mean))
        ELSE
          LET z_scores_sq == [i \in 1..Len(arr) |->
                                NpDiv(Mul(Sub(arr[i], mean), Sub(arr[i], mean)),
                                      std_sq)]
              outlier_mask == [i \in 1..Len(arr) |->
                                 ZScoreGt(z_scores_sq[i], threshold)]
          IN  OutlierAnalysis("zscore", data, Where(outlier_mask),
                              Masked(arr, outlier_mask),
                              Surd(mean, Neg(threshold), std_sq),
                              Surd(mean, threshold, std_sq))

----------------------------------------------------------------------------
(* compare_multiple_meshes.  The dict mesh_data is the sequence of its      *)
(* (name, data) items in insertion order, the names distinct.  The F        *)
(* statistic and the p-value of scipy's f_oneway are not computed.          *)

\* sum(len(data) for data in mesh_data.values())
RECURSIVE TotalObservations(_)
TotalObservations(items) ==
    IF items = <<>> THEN 0
    ELSE Len(Head(items)[2]) + TotalObservations(Tail(items))

\* faulty variant: the total degrees of freedom n - 1
DfWithinTotal(n, k) == n - 1

\* df_within = n - k
DfWithin(n, k) == n - k

\* faulty variant: a single group is let through
NoGroups(mesh_data) == Len(mesh_data) < 1

\* line 279: len(mesh_data) < 2
TooFewGroups(mesh_data) == Len(mesh_data) < 2

compare_multiple_meshes(mesh_data) ==
    IF TooFewGroups(mesh_data)
    THEN Raise("ValueError", "Need at least 2 groups for ANOVA")
    ELSE
      LET called == [i \in 1..Len(mesh_data) |->
                       calculate_descriptive_statistics(mesh_data[i][2])]
          raising == {i \in 1..Len(mesh_data) : Raised(called[i])}
          group_stats ==
              [name \in {mesh_data[i][1] : i \in 1..Len(mesh_data)} |->
                 Value(called[CHOOSE i \in 1..Len(mesh_data) :
                                 mesh_data[i][1] = name])]
          k == Len(mesh_data)
          n == TotalObservations(mesh_data)
      IN  IF raising # {}
          THEN called[CHOOSE i \in raising : \A j \in raising : i <= j]
          ELSE Ok([ degrees_of_freedom_between |-> k - 1,
                    degrees_of_freedom_within  |-> DfWithin(n, k),
                    group_statistics           |-> group_stats ])

----------------------------------------------------------------------------
(* generate_statistical_report.  mesh_results is, like mesh_data, the       *)
(* sequence of the dict's (name, data) items; the model_dump() of a result  *)
(* is the result's record.                                                  *)

\* d[name] for a dict given by its items
ItemOf(items, name) ==
    items[CHOOSE i \in 1..Len(items) : items[i][1] = name][2]
NamesOf(items) == {items[i][1] : i \in 1..Len(items)}

\* {"baseline": baseline, **mesh_results}: a mesh named "baseline" replaces
\* the baseline's data and keeps the first place
AllData(baseline, mesh_results) ==
    IF "baseline" \in NamesOf(mesh_results)
    THEN <<<<"baseline", ItemOf(mesh_results, "baseline")>>>>
         \o SelectSeq(mesh_results, LAMBDA item : item[1] # "baseline")
    ELSE <<<<"baseline", baseline>>>> \o mesh_results

\* detect_outliers_iqr(data) with the default multiplier on any data without
\* infinities: np.percentile raises on an empty array and is nan when a value
\* is nan, which leaves both bounds nan and every comparison false
OutliersOf(data) ==
    IF data = <<>> THEN Raise("Exception", "np.percentile of an empty array")
    ELSE IF HasNonFinite(data)
         THEN Ok(OutlierAnalysis("iqr", data, <<>>, <<>>, Rat(NaN), Rat(NaN)))
    ELSE Ok(detect_outliers_iqr(data, Frac(3, 2)))

\* faulty variant: a failed comparison leaves no entry
PairwiseWithoutFailures(baseline, mesh_results) ==
    [mesh_name \in {n \in NamesOf(mesh_results) :
                      ~Raised(compare_two_samples(baseline,
                                                  ItemOf(mesh_results, n), TRUE))} |->
       Value(compare_two_samples(baseline, ItemOf(mesh_results, mesh_name), TRUE))]

\* lines 475-481: one entry per mesh, the comparison or {"error": str(e)}
\* for a ValueError
PairwiseComparisons(baseline, mesh_results) ==
    [mesh_name \in NamesOf(mesh_results) |->
       LET comparison == compare_two_samples(baseline,
                                             ItemOf(mesh_results, mesh_name), TRUE)
       IN  IF Raised(comparison) THEN [error |-> comparison.msg]
           ELSE Value(comparison)]

generate_statistical_report(baseline, mesh_results) ==
    LET baseline_statistics == calculate_descriptive_statistics(baseline)
        \* an exception other than ValueError leaves the loop
        escaping == {i \in 1..Len(mesh_results) :
                       compare_two_samples(baseline, mesh_results[i][2], TRUE).exc
                         \notin {"", "ValueError"}}
        anova == compare_multiple_meshes(AllData(baseline, mesh_results))
        outliers == [name \in {"baseline"} \cup NamesOf(mesh_results) |->
                       OutliersOf(IF name \in NamesOf(mesh_results)
                                  THEN ItemOf(mesh_results, name) ELSE baseline)]
    IN  IF Raised(baseline_statistics) THEN baseline_statistics
        ELSE IF escaping # {}
        THEN compare_two_samples(baseline,
                 mesh_results[CHOOSE i \in escaping : \A j \in escaping : i <= j][2],
                 TRUE)
        ELSE Ok([ baseline_statistics  |-> Value(baseline_statistics),
                  pairwise_comparisons |-> PairwiseComparisons(baseline, mesh_results),
                  anova_result         |->
                      IF Len(mesh_results) > 1
                      THEN Some(IF Raised(anova) THEN [error |-> anova.msg]
                                ELSE Value(anova))
                      ELSE None,
                  outlier_analysis     |->
                      IF \E name \in DOMAIN outliers : Raised(outliers[name])
                      THEN [error |-> "np.percentile of an empty array"]
                      ELSE [name \in DOMAIN outliers |-> Value(outliers[name])] ])

----------------------------------------------------------------------------
(* The job table of the API (api/state.py), the benchmark endpoints         *)
(* (api/endpoints/benchmarks.py) and the JSON job persistence               *)
(* (api/persistence.py).                                                    *)
(*                                                                          *)
(* Scheduling.  The endpoints and the background tasks are coroutines of    *)
(* one asyncio event loop: a coroutine runs until an await that really      *)
(* suspends.  "async with _jobs_lock" does not suspend when the lock is     *)
(* free (asyncio.Lock.acquire returns at once), and the lock is always free *)
(* because no coroutine awaits anything while it holds it; the file         *)
(* operations of JobPersistence are synchronous.  The only suspensions of   *)
(* run_benchmark_script are the start of the subprocess and the wait for    *)
(* its end (lines 43-52), so the task is two steps, and every endpoint is   *)
(* one.                                                                     *)

\* a datetime: tzinfo is "" for a naive one
Datetime(ticks, tzinfo) == [ticks |-> ticks, tzinfo |-> tzinfo]

\* a JSON value of a date field: text is "iso" for a string in ISO format
\* (suffix "", "Z" or "+00:00"), "other" for any other string, "number" for
\* a value that is not a string
IsoString(ticks, suffix) == [text |-> "iso", ticks |-> ticks, suffix |-> suffix]
OtherString == [text |-> "other", ticks |-> 0, suffix |-> ""]
NotAString == [text |-> "number", ticks |-> 0, suffix |-> ""]

\* datetime.isoformat()
isoformat(dt) == IsoString(dt.ticks, IF dt.tzinfo = "" THEN "" ELSE "+00:00")
\* s + "Z": an offset followed by Z is no ISO format
PlusZ(s) == IF s.text = "iso" /\ s.suffix = "" THEN IsoString(s.ticks, "Z")
            ELSE OtherString
\* s.replace("Z", "+00:00")
ReplaceZ(s) == IF s.text = "iso" /\ s.suffix = "Z"
               THEN IsoString(s.ticks, "+00:00") ELSE s
\* datetime.fromisoformat(s): an offset makes the datetime aware
fromisoformat(s) ==
    IF s.text # "iso" THEN Raise("ValueError", "Invalid isoformat string")
    ELSE Ok(Datetime(s.ticks, IF s.suffix = "" THEN "" ELSE "UTC"))

\* state.py
set_job(jobs, job_id, job_data) ==
    [id \in DOMAIN jobs \cup {job_id} |->
       IF id = job_id THEN job_data ELSE jobs[id]]

\* dict.update keeps the fields the updates do not name
update_job(jobs, job_id, updates) ==
    IF job_id \in DOMAIN jobs
    THEN [jobs EXCEPT ![job_id] = updates @@ jobs[job_id]]
    ELSE jobs

delete_job(jobs, job_id) == [id \in DOMAIN jobs \ {job_id} |-> jobs[id]]

\* config.py: the script of a test type
BENCHMARK_SCRIPTS(test_type) ==
    IF test_type = "http" THEN Some("http-load-test.sh")
    ELSE IF test_type = "grpc" THEN Some("grpc-test.sh")
    ELSE IF test_type = "websocket" THEN Some("websocket-test.sh")
    ELSE IF test_type = "ml" THEN Some("ml-workload.sh")
    ELSE None

\* line 103: the id names the test type, the mesh type and the second of
\* the request
JobId(test_type, mesh_type, started) == <<test_type, mesh_type, started.ticks>>

\* lines 127-136: the job as start_benchmark creates it
NewJob(job_id, test_type, mesh_type, started_at) ==
    [ job_id       |-> job_id,
      status       |-> "pending",
      test_type    |-> test_type,
      mesh_type    |-> mesh_type,
      started_at   |-> started_at,
      completed_at |-> None,
      result_file  |-> None,
      error        |-> None ]

\* a file of RESULTS_DIR matching *.json: a result written by the script of
\* background task number task, a file left by an earlier run of the
\* service, or jobs_history.json
ResultFile(kind, task, mtime) == [kind |-> kind, task |-> task, mtime |-> mtime]

\* line 58: max(results_files, key=st_mtime); among files of one mtime the
\* order of glob decides, which is any order
Latest(results_files) ==
    {p \in results_files : \A q \in results_files : q.mtime <= p.mtime}

\* lines 26-32: the script is missing
ScriptNotFound(jobs, job_id, today) ==
    update_job(jobs, job_id, [ status       |-> "failed",
                               error        |-> Some("Script not found"),
                               completed_at |-> Some(today) ])

\* lines 54-72: the update after the subprocess ended; latest_result is one
\* of Latest(results_files) when there is a file
AfterProcess(jobs, job_id, returncode, results_files, latest_result) ==
    IF returncode = 0
    THEN IF results_files # {}
         THEN update_job(jobs, job_id, [ result_file |-> Some(latest_result),
                                         status      |-> "completed" ])
         ELSE update_job(jobs, job_id, [ status |-> "failed",
                                         error  |-> Some("No result file generated") ])
    ELSE update_job(jobs, job_id, [ status |-> "failed",
                                    error  |-> Some("stderr") ])

\* lines 74-78: an exception of the subprocess calls
AfterException(jobs, job_id) ==
    update_job(jobs, job_id, [status |-> "failed", error |-> Some("exception")])

\* faulty variant: the completion time is not recorded
FinallyWithoutTime(jobs, job_id, today) == jobs

\* lines 80-81
Finally(jobs, job_id, today) ==
    update_job(jobs, job_id, [completed_at |-> Some(today)])

\* settings.py: persistence_enabled (the default)
persistence_enabled == TRUE

\* JobPersistence._serialize_job: the datetimes become isoformat() + "Z",
\* anything else is left as it is
SerializeDate(v) ==
    IF v # None /\ "tzinfo" \in DOMAIN v[1]
    THEN Some(PlusZ(isoformat(v[1]))) ELSE v

_serialize_job(job_data) ==
    [job_data EXCEPT !.started_at = SerializeDate(Some(job_data.started_at))[1],
                     !.completed_at = SerializeDate(job_data.completed_at)]

\* JobPersistence.save_job: the content of jobs_history.json afterwards
save_job(jobs, job_id, job_data) == set_job(jobs, job_id, _serialize_job(job_data))

\* lines 121-136 for one stored job: "keep", "delete", or "TypeError" for the
\* comparison of an aware datetime with the naive cutoff_date
Retention(job_data, cutoff_date) ==
    LET completed_at == job_data.completed_at
    IN  IF completed_at = None \/ job_data.status \notin {"completed", "failed"}
        THEN "keep"
        ELSE IF completed_at[1].text = "number" THEN "keep"  \* AttributeError
        ELSE LET completed_dt == fromisoformat(ReplaceZ(completed_at[1]))
             IN  IF Raised(completed_dt) THEN "keep"         \* ValueError
                 ELSE IF Value(completed_dt).tzinfo # cutoff_date.tzinfo
                      THEN "TypeError"
                 ELSE IF Value(completed_dt).ticks > cutoff_date.ticks
                      THEN "keep"
                 ELSE "delete"

\* JobPersistence.cleanup_old_jobs(days) at the time today, a tick of the
\* clock being a day: the content of jobs_history.json afterwards, whether
\* the file was written, and what the call returned or raised
cleanup_old_jobs(jobs, days, today) ==
    LET cutoff_date == Datetime(today.ticks - days, today.tzinfo)
        jobs_to_keep == {id \in DOMAIN jobs :
                           Retention(jobs[id], cutoff_date) = "keep"}
        deleted_count == Cardinality(DOMAIN jobs) - Cardinality(jobs_to_keep)
    IN  IF \E id \in DOMAIN jobs : Retention(jobs[id], cutoff_date) = "TypeError"
        THEN [jobs |-> jobs, saved |-> FALSE,
              returned |-> Raise("TypeError",
                  "can't compare offset-naive and offset-aware datetimes")]
        ELSE [jobs |-> [id \in jobs_to_keep |-> jobs[id]],
              saved |-> deleted_count > 0,
              returned |-> Ok(deleted_count)]

----------------------------------------------------------------------------
(* State. *)

VARIABLES
    results,         \* aggregate_metrics: the list of record dicts it is given
    aggregated,      \* aggregate_metrics: its dict key -> AggregatedMetrics
    pc,              \* position in the operation under way
    baseline,        \* compare_two_samples: argument baseline
    mesh,            \* compare_two_samples: argument mesh
    equal_variance,  \* compare_two_samples: argument equal_variance
    comparison,      \* compare_two_samples: what the call returned or raised
    sample,          \* argument data of the one-sample functions
    threshold,       \* detect_outliers_zscore: argument threshold
    multiplier,      \* detect_outliers_iqr: argument multiplier
    self,            \* the StatisticalComparison whose computed fields are read
    mesh_data,       \* compare_multiple_meshes: argument mesh_data
    outcome,         \* what the call under way returned or raised
    running_jobs,    \* state.py: the job table, job id -> job
    tasks,           \* the background tasks added by start_benchmark, in order
    files,           \* the *.json files of RESULTS_DIR
    now,             \* the clock read by datetime.utcnow() and by the file system
    response,        \* the jobs of the answer a status request has just got
    stored,          \* the content of jobs_history.json, job id -> stored job
    days             \* cleanup_old_jobs: argument days

aggVars == <<results, aggregated>>
cmpVars == <<baseline, mesh, equal_variance, comparison>>
argVars == <<sample, threshold, multiplier, self, mesh_data>>
apiVars == <<running_jobs, tasks, files, now, response, stored, days>>
vars == <<results, aggregated, pc, baseline, mesh, equal_variance, comparison,
          sample, threshold, multiplier, self, mesh_data, outcome,
          running_jobs, tasks, files, now, response, stored, days>>

----------------------------------------------------------------------------
(* src/generate-report.py: aggregate_metrics *)

\* dict.get(k, default)
get(d, k, default) == IF k \in DOMAIN d THEN d[k] ELSE default

\* AggregatedMetrics(test_type=..., mesh_type=...): runs empty, the rest None.
\* runs holds references to the input dicts: positions in results.
AggregatedMetrics(test_type, mesh_type) ==
    [ test_type             |-> test_type,
      mesh_type             |-> mesh_type,
      runs                  |-> <<>>,
      avg_throughput        |-> None,
      avg_latency           |-> None,
      p95_latency           |-> None,
      p99_latency           |-> None,
      throughput_stats      |-> None,
      latency_stats         |-> None,
      throughput_comparison |-> None,
      latency_comparison    |-> None ]

\* key = f"{test_type}_{mesh_type}"
GroupKey(test_type, mesh_type) == test_type \o "_" \o mesh_type

\* lines 179-191: the grouping loop, from record i on
RECURSIVE GroupResults(_, _, _)
GroupResults(rs, i, agg) ==
    IF i > Len(rs) THEN agg
    ELSE LET result    == rs[i]
             test_type == get(result, "test_type", "unknown")
             mesh_type == get(result, "mesh_type", "baseline")
             key       == GroupKey(test_type, mesh_type)
             agg1      == IF key \notin DOMAIN agg
                          THEN agg @@ (key :> AggregatedMetrics(test_type, mesh_type))
                          ELSE agg
         IN  GroupResults(rs, i + 1, [agg1 EXCEPT ![key].runs = Append(@, i)])

\* lines 201-206 (and 239-251): the values of one metric over a group's runs
CarriesMetric(run, metric) ==
    /\ "metrics" \in DOMAIN run
    /\ metric \in DOMAIN run["metrics"]
    /\ truthy(run["metrics"][metric])

RECURSIVE Extract(_, _, _)
Extract(rs, runs, metric) ==
    IF runs = <<>> THEN <<>>
    ELSE (IF CarriesMetric(rs[Head(runs)], metric)
          THEN <<rs[Head(runs)]["metrics"][metric]>> ELSE <<>>)
         \o Extract(rs, Tail(runs), metric)

\* lines 208-219: the statistics of one group
WithStats(rs, data) ==
    LET throughputs == Extract(rs, data.runs, "requests_per_sec")
        latencies   == Extract(rs, data.runs, "avg_latency_ms")
        d1 == IF throughputs # <<>>
              THEN [data EXCEPT
                     !.avg_throughput = Some(Mean(throughputs)),
                     !.throughput_stats =
                         Some(Value(calculate_descriptive_statistics(throughputs)))]
              ELSE data
    IN  IF latencies # <<>>
        THEN [d1 EXCEPT
               !.avg_latency = Some(Mean(latencies)),
               !.p95_latency = calculate_percentile(latencies, 95),
               !.p99_latency = calculate_percentile(latencies, 99),
               !.latency_stats =
                   Some(Value(calculate_descriptive_statistics(latencies)))]
        ELSE d1

\* faulty variant: the statistics are computed without the "if throughputs:" and
\* "if latencies:" guards
StatsRaiseUnguarded(rs, data) ==
    \/ Raised(calculate_descriptive_statistics(
                  Extract(rs, data.runs, "requests_per_sec")))
    \/ Raised(calculate_descriptive_statistics(
                  Extract(rs, data.runs, "avg_latency_ms")))

\* calculate_descriptive_statistics is called outside any try block: its
\* ValueError leaves aggregate_metrics
StatsRaise(rs, data) ==
    LET throughputs == Extract(rs, data.runs, "requests_per_sec")
        latencies   == Extract(rs, data.runs, "avg_latency_ms")
    IN  \/ throughputs # <<>> /\ Raised(calculate_descriptive_statistics(throughputs))
        \/ latencies # <<>> /\ Raised(calculate_descriptive_statistics(latencies))

\* faulty variant: the skip tests another spelling of the baseline name
IsBaselineGroupMisspelt(data) == data.mesh_type = "Baseline"

\* line 223: the baseline group itself is skipped
IsBaselineGroup(data) == data.mesh_type = "baseline"

\* lines 254-270: one comparison; an exception of compare_two_samples is
\* caught and leaves the field None
TryCompare(baseline_values, mesh_values) ==
    IF mesh_values # <<>> /\ baseline_values # <<>>
       /\ Len(mesh_values) >= 2 /\ Len(baseline_values) >= 2
    THEN LET r == compare_two_samples(baseline_values, mesh_values, TRUE)
         IN  IF Raised(r) THEN None ELSE Some(Value(r))
    ELSE None

\* lines 222-270: the comparisons of one group
WithComparisons(rs, agg, key) ==
    LET data == agg[key]
        baseline_key == GroupKey(data.test_type, "baseline")
    IN  IF IsBaselineGroup(data) THEN data
        ELSE IF baseline_key \notin DOMAIN agg THEN data
        ELSE [data EXCEPT
               !.throughput_comparison =
                   TryCompare(Extract(rs, agg[baseline_key].runs, "requests_per_sec"),
                              Extract(rs, data.runs, "requests_per_sec")),
               !.latency_comparison =
                   TryCompare(Extract(rs, agg[baseline_key].runs, "avg_latency_ms"),
                              Extract(rs, data.runs, "avg_latency_ms"))]

\* faulty variant: the groups of the earlier call are still in the dict, as
\* with a module-level dict
GroupCarriedOver ==
    /\ pc = "start"
    /\ aggregated' = GroupResults(results, 1,
                                  [key \in DOMAIN aggregated |->
                                     [aggregated[key] EXCEPT !.runs = <<>>]])
    /\ pc' = "grouped"
    /\ UNCHANGED <<results, cmpVars, argVars, apiVars, outcome>>

\* first loop, lines 177-191
Group ==
    /\ pc = "start"
    /\ aggregated' = GroupResults(results, 1, <<>>)
    /\ pc' = "grouped"
    /\ UNCHANGED <<results, cmpVars, argVars, apiVars, outcome>>

\* second loop, lines 194-219; a raise ends the call without a result
Stats ==
    /\ pc = "grouped"
    /\ IF \E key \in DOMAIN aggregated : StatsRaise(results, aggregated[key])
       THEN /\ pc' = "raised"
            /\ UNCHANGED aggregated
       ELSE /\ pc' = "stats"
            /\ aggregated' = [key \in DOMAIN aggregated |->
                                 WithStats(results, aggregated[key])]
    /\ UNCHANGED <<results, cmpVars, argVars, apiVars, outcome>>

\* third loop, lines 222-272, and the return
Compare ==
    /\ pc = "stats"
    /\ aggregated' = [key \in DOMAIN aggregated |->
                         WithComparisons(results, aggregated, key)]
    /\ pc' = "done"
    /\ UNCHANGED <<results, cmpVars, argVars, apiVars, outcome>>

NextAgg == Group \/ Stats \/ Compare

----------------------------------------------------------------------------
(* compare_two_samples as an operation of its own *)

CompareTwoSamples ==
    /\ pc = "call"
    /\ comparison' = compare_two_samples(baseline, mesh, equal_variance)
    /\ pc' = "returned"
    /\ UNCHANGED <<aggVars, baseline, mesh, equal_variance, argVars, apiVars, outcome>>

NextCmp == CompareTwoSamples

----------------------------------------------------------------------------
(* calculate_descriptive_statistics as an operation of its own *)

CalculateDescriptiveStatistics ==
    /\ pc = "describe"
    /\ outcome' = calculate_descriptive_statistics(sample)
    /\ pc' = "described"
    /\ UNCHANGED <<aggVars, cmpVars, argVars, apiVars>>

NextStats == CalculateDescriptiveStatistics

----------------------------------------------------------------------------
(* The two outlier detectors as operations *)

DetectOutliersIqr ==
    /\ pc = "detect"
    /\ outcome' = Ok(detect_outliers_iqr(sample, multiplier))
    /\ pc' = "iqr"
    /\ UNCHANGED <<aggVars, cmpVars, argVars, apiVars>>

DetectOutliersZscore ==
    /\ pc = "detect"
    /\ outcome' = Ok(detect_outliers_zscore(sample, threshold))
    /\ pc' = "zscore"
    /\ UNCHANGED <<aggVars, cmpVars, argVars, apiVars>>

NextOutliers == DetectOutliersIqr \/ DetectOutliersZscore

----------------------------------------------------------------------------
(* Reading a computed field of a StatisticalComparison *)

EffectSizeInterpretation ==
    /\ pc = "object"
    /\ outcome' = Ok(effect_size_interpretation(self[1]))
    /\ pc' = "effect"
    /\ UNCHANGED <<aggVars, cmpVars, argVars, apiVars>>

ConfidenceIntervalsOverlap ==
    /\ pc = "object"
    /\ outcome' = Ok(confidence_intervals_overlap(self[1]))
    /\ pc' = "overlap"
    /\ UNCHANGED <<aggVars, cmpVars, argVars, apiVars>>

NextFields == EffectSizeInterpretation \/ ConfidenceIntervalsOverlap

----------------------------------------------------------------------------
(* compare_multiple_meshes as an operation *)

CompareMultipleMeshes ==
    /\ pc = "anova"
    /\ outcome' = compare_multiple_meshes(mesh_data)
    /\ pc' = "compared"
    /\ UNCHANGED <<aggVars, cmpVars, argVars, apiVars>>

NextAnova == CompareMultipleMeshes

----------------------------------------------------------------------------
(* generate_statistical_report as an operation *)

GenerateStatisticalReport ==
    /\ pc = "report"
    /\ outcome' = generate_statistical_report(baseline, mesh_data)
    /\ pc' = "reported"
    /\ UNCHANGED <<aggVars, cmpVars, argVars, apiVars>>

NextReport == GenerateStatisticalReport

----------------------------------------------------------------------------
(* The benchmark endpoints and the background task, one action for each     *)
(* stretch a coroutine runs without suspending.                             *)

utcnow == Datetime(now, "")

\* a write of jobs_history.json
WriteHistory == {p \in files : p.kind # "jobs_history"}
                  \cup {ResultFile("jobs_history", 0, now)}

\* lines 83-94: the job, if it is still in the table, is saved
Persisted(jobs, job_id) ==
    IF persistence_enabled /\ job_id \in DOMAIN jobs
    THEN /\ stored' = save_job(stored, job_id, jobs[job_id])
         /\ files' = WriteHistory
    ELSE UNCHANGED <<stored, files>>

\* POST /benchmarks/start
StartBenchmark(test_type, mesh_type) ==
    LET started_at == utcnow
        job_id == JobId(test_type, mesh_type, started_at)
        script_name == BENCHMARK_SCRIPTS(test_type)
    IN  /\ pc = "serving"
        /\ Len(tasks) < MaxJobs
        /\ script_name # None
        /\ running_jobs' = set_job(running_jobs, job_id,
                                   NewJob(job_id, test_type, mesh_type, started_at))
        /\ tasks' = Append(tasks, [ job_id      |-> job_id,
                                    script_name |-> script_name[1],
                                    pc          |-> "queued",
                                    wrote       |-> FALSE ])
        /\ response' = {}
        /\ UNCHANGED <<aggVars, pc, cmpVars, argVars, outcome,
                       files, now, stored, days>>

\* run_benchmark_script up to the start of the subprocess (lines 24-50)
RunBenchmarkScript(k) ==
    /\ pc = "serving"
    /\ k \in 1..Len(tasks)
    /\ tasks[k].pc = "queued"
    /\ \E exists \in BOOLEAN, started \in BOOLEAN :
         IF ~exists
         THEN /\ running_jobs' = ScriptNotFound(running_jobs, tasks[k].job_id, utcnow)
              /\ tasks' = [tasks EXCEPT ![k].pc = "done"]
              /\ UNCHANGED <<stored, files>>
         ELSE IF started
         THEN /\ running_jobs' = update_job(running_jobs, tasks[k].job_id,
                                            [status |-> "running"])
              /\ tasks' = [tasks EXCEPT ![k].pc = "communicate"]
              /\ UNCHANGED <<stored, files>>
         ELSE \* create_subprocess_exec raises
              /\ running_jobs' =
                   Finally(AfterException(update_job(running_jobs, tasks[k].job_id,
                                                     [status |-> "running"]),
                                          tasks[k].job_id),
                           tasks[k].job_id, utcnow)
              /\ tasks' = [tasks EXCEPT ![k].pc = "done"]
              /\ Persisted(running_jobs', tasks[k].job_id)
    /\ response' = {}
    /\ UNCHANGED <<aggVars, pc, cmpVars, argVars, outcome, now, days>>

\* the script of task k, running as the subprocess, writes its result file
ScriptWritesResult(k) ==
    /\ pc = "serving"
    /\ k \in 1..Len(tasks)
    /\ tasks[k].pc = "communicate"
    /\ ~tasks[k].wrote
    /\ files' = files \cup {ResultFile("result", k, now)}
    /\ tasks' = [tasks EXCEPT ![k].wrote = TRUE]
    /\ response' = {}
    /\ UNCHANGED <<aggVars, pc, cmpVars, argVars, outcome,
                   running_jobs, now, stored, days>>

\* run_benchmark_script from the end of the subprocess on (lines 52-94)
ProcessEnded(k) ==
    /\ pc = "serving"
    /\ k \in 1..Len(tasks)
    /\ tasks[k].pc = "communicate"
    /\ \E ending \in {"zero", "nonzero", "exception"} :
         \E latest_result \in IF files = {} THEN {None} ELSE Latest(files) :
           running_jobs' =
             Finally(IF ending = "exception"
                     THEN AfterException(running_jobs, tasks[k].job_id)
                     ELSE AfterProcess(running_jobs, tasks[k].job_id,
                                       IF ending = "zero" THEN 0 ELSE 1,
                                       files, latest_result),
                     tasks[k].job_id, utcnow)
    /\ tasks' = [tasks EXCEPT ![k].pc = "done"]
    /\ Persisted(running_jobs', tasks[k].job_id)
    /\ response' = {}
    /\ UNCHANGED <<aggVars, pc, cmpVars, argVars, outcome, now, days>>

\* DELETE /benchmarks/jobs/{job_id} for a job of the table
CancelJob(job_id) ==
    /\ pc = "serving"
    /\ job_id \in DOMAIN running_jobs
    /\ running_jobs' =
         delete_job(IF running_jobs[job_id].status = "running"
                    THEN update_job(running_jobs, job_id,
                                    [ status       |-> "failed",
                                      error        |-> Some("Cancelled by user"),
                                      completed_at |-> Some(utcnow) ])
                    ELSE running_jobs,
                    job_id)
    /\ response' = {}
    /\ UNCHANGED <<aggVars, pc, cmpVars, argVars, outcome,
                   tasks, files, now, stored, days>>

\* GET /benchmarks/jobs/{job_id} for a job of the table
GetJobStatus(job_id) ==
    /\ pc = "serving"
    /\ job_id \in DOMAIN running_jobs
    /\ response' = {running_jobs[job_id]}
    /\ UNCHANGED <<aggVars, pc, cmpVars, argVars, outcome,
                   running_jobs, tasks, files, now, stored, days>>

\* GET /benchmarks/jobs without a filter
ListJobs ==
    /\ pc = "serving"
    /\ response' = {running_jobs[job_id] : job_id \in DOMAIN running_jobs}
    /\ UNCHANGED <<aggVars, pc, cmpVars, argVars, outcome,
                   running_jobs, tasks, files, now, stored, days>>

\* the clock advances
Tick ==
    /\ pc \in {"serving", "persist", "cleaned"}
    /\ now < MaxTime
    /\ now' = now + 1
    /\ response' = {}
    /\ UNCHANGED <<aggVars, pc, cmpVars, argVars, outcome,
                   running_jobs, tasks, files, stored, days>>

----------------------------------------------------------------------------
(* JobPersistence as operations of their own *)

SaveJob(job_id, job_data) ==
    /\ pc \in {"persist", "cleaned"}
    /\ stored' = save_job(stored, job_id, job_data)
    /\ files' = WriteHistory
    /\ pc' = "persist"
    /\ UNCHANGED <<aggVars, cmpVars, argVars, outcome,
                   running_jobs, tasks, now, response, days>>

CleanupOldJobs ==
    LET call == cleanup_old_jobs(stored, days, utcnow)
    IN  /\ pc = "persist"
        /\ stored' = call.jobs
        /\ files' = IF call.saved THEN WriteHistory ELSE files
        /\ outcome' = call.returned
        /\ pc' = "cleaned"
        /\ UNCHANGED <<aggVars, cmpVars, argVars,
                       running_jobs, tasks, now, response, days>>

----------------------------------------------------------------------------
(* Inputs. *)

SeqsUpTo(S, n) == UNION {[1..k -> S] : k \in 0..n}

\* a record dict: each of the three keys present or absent
Record(test_type, mesh_type, metrics) ==
    (IF test_type = None THEN <<>> ELSE "test_type" :> test_type[1])
    @@ (IF mesh_type = None THEN <<>> ELSE "mesh_type" :> mesh_type[1])
    @@ (IF metrics = None THEN <<>> ELSE "metrics" :> metrics[1])

Metrics(requests_per_sec, avg_latency_ms) ==
    (IF requests_per_sec = None THEN <<>>
     ELSE "requests_per_sec" :> requests_per_sec[1])
    @@ (IF avg_latency_ms = None THEN <<>>
        ELSE "avg_latency_ms" :> avg_latency_ms[1])

\* records that differ in their labels, "_" inside a label included
LabelRecords ==
    { Record(Some(tt), mt, Some(Metrics(Some(F(100)), Some(F(5))))) :
        tt \in {"http", "http_x"},
        mt \in {None, Some("baseline"), Some("x_baseline"), Some("istio")} }

\* records that differ in the metrics they carry; labels left to the defaults
SeriesRecords ==
    { Record(None, mt, m) :
        mt \in {None, Some("istio")},
        m \in { None,
                Some(Metrics(Some(F(100)), None)),
                Some(Metrics(Some(F(0)), Some(F(5)))),
                Some(Metrics(Some(F(80)), Some(F(7)))) } }

\* records with a NaN or an infinite metric value among finite ones
NonFiniteRecords ==
    { Record(Some(tt), mt, Some(Metrics(Some(rps), Some(F(5))))) :
        tt \in {"http", "grpc"},
        mt \in {None, Some("istio")},
        rps \in {F(100), NaN, PosInf} }

SampleValues == {F(0), F(1), F(3), NaN}

\* records of successive calls; the metrics carry a key the engine does not
\* read
CallRecords ==
    { Record(Some("http"), mt, Some(Metrics(Some(rps), None)
                                      @@ ("total_requests" :> F(7)))) :
        mt \in {None, Some("istio")},
        rps \in {F(100), NaN} }

\* values of the samples handed to calculate_descriptive_statistics
StatValues == {F(0), F(1), F(3), F(10), NaN, PosInf, Neg(PosInf)}

AggIdle == results = <<>> /\ aggregated = <<>>
ArgIdle == sample = <<>> /\ threshold = F(0) /\ multiplier = F(0)
           /\ self = None /\ mesh_data = <<>> /\ outcome = None
CmpIdle == baseline = <<>> /\ mesh = <<>> /\ equal_variance = TRUE
           /\ comparison = None
ApiIdle == running_jobs = <<>> /\ tasks = <<>> /\ files = {} /\ now = 0
           /\ response = {} /\ stored = <<>> /\ days = 0

InitAgg(Records) ==
    /\ results \in SeqsUpTo(Records, MaxRuns)
    /\ aggregated = <<>>
    /\ pc = "start"
    /\ CmpIdle
    /\ ArgIdle
    /\ ApiIdle

Init == InitAgg(LabelRecords)
InitCalls ==
    /\ results \in SeqsUpTo(CallRecords, MaxCallRuns)
    /\ aggregated = <<>>
    /\ pc = "start"
    /\ CmpIdle
    /\ ArgIdle
    /\ ApiIdle
InitSeries == InitAgg(SeriesRecords)
InitNonFinite == InitAgg(NonFiniteRecords)

InitCmp ==
    /\ baseline \in SeqsUpTo(SampleValues, MaxLen)
    /\ mesh \in SeqsUpTo(SampleValues, MaxLen)
    /\ equal_variance \in BOOLEAN
    /\ comparison = None
    /\ pc = "call"
    /\ AggIdle
    /\ ApiIdle
    /\ ArgIdle

\* values of the samples handed to the outlier detectors
OutlierValues == {F(0), F(1), F(3), F(10)}
Thresholds == {F(1), Frac(6, 5), F(3)}
Multipliers == {F(1), Frac(3, 2)}

InitOutliers ==
    /\ sample \in SeqsUpTo(OutlierValues, MaxSample) \ {<<>>}
    /\ threshold \in Thresholds
    /\ multiplier \in Multipliers
    /\ self = None /\ mesh_data = <<>> /\ outcome = None
    /\ pc = "detect"
    /\ AggIdle
    /\ ApiIdle
    /\ CmpIdle

\* StatisticalComparison objects: the fields the computed fields read.
\* cohens_d is k/10 or k/20; a mean is a multiple of 1.96 or a whole number.
EffectSizes ==
    { [num |-> Frac(k, 10), den_sq |-> r] :
        k \in (-MaxTenths)..MaxTenths, r \in {F(1), F(4)} }
IntervalStats ==
    { [mean |-> m, standard_error_sq |-> e] :
        m \in {F(0), Frac(196, 100), F(2), Frac(392, 100)}, e \in {F(0), F(1)} }

InitFields ==
    /\ self \in { Some([cohens_d |-> d, baseline_stats |-> b, mesh_stats |-> m]) :
                    d \in EffectSizes, b \in IntervalStats, m \in IntervalStats }
    /\ sample = <<>> /\ threshold = F(0) /\ multiplier = F(0)
    /\ mesh_data = <<>> /\ outcome = None
    /\ pc = "object"
    /\ AggIdle
    /\ ApiIdle
    /\ CmpIdle

\* the dicts handed to compare_multiple_meshes: any of three names, entered
\* in this order, each with a sample
GroupNames == <<"baseline", "istio", "cilium">>
GroupValues == {F(0), F(3), NaN}
\* the dict with the keys S, in the order of GroupNames, and the samples d
MeshData(S, d) ==
    LET names == SelectSeq(GroupNames, LAMBDA name : name \in S)
    IN  [i \in 1..Len(names) |-> <<names[i], d[names[i]]>>]

InitAnova ==
    /\ \E S \in SUBSET {GroupNames[i] : i \in 1..Len(GroupNames)} :
         \E d \in [S -> SeqsUpTo(GroupValues, MaxGroupLen)] :
           mesh_data = MeshData(S, d)
    /\ sample = <<>> /\ threshold = F(0) /\ multiplier = F(0)
    /\ self = None /\ outcome = None
    /\ pc = "anova"
    /\ AggIdle
    /\ ApiIdle
    /\ CmpIdle

\* the arguments of generate_statistical_report: a baseline and a dict of up
\* to two meshes
ReportNames == {"istio", "cilium"}

InitReport ==
    /\ baseline \in SeqsUpTo(GroupValues, MaxReportLen)
    /\ \E S \in SUBSET ReportNames :
         \E d \in [S -> SeqsUpTo(GroupValues, MaxReportLen)] :
           mesh_data = MeshData(S, d)
    /\ mesh = <<>> /\ equal_variance = TRUE /\ comparison = None
    /\ sample = <<>> /\ threshold = F(0) /\ multiplier = F(0)
    /\ self = None /\ outcome = None
    /\ pc = "report"
    /\ AggIdle
    /\ ApiIdle

\* the requests to start a benchmark, each for the default mesh type
TestTypes == {"http"}

\* the service starts with an empty job table; RESULTS_DIR may hold a file
\* of an earlier run
InitJobs ==
    /\ running_jobs = <<>> /\ tasks = <<>>
    /\ files \in {{}, {ResultFile("earlier", 0, 0)}}
    /\ now = 0 /\ response = {} /\ stored = <<>> /\ days = 0
    /\ pc = "serving"
    /\ outcome = None
    /\ results = <<>> /\ aggregated = <<>>
    /\ CmpIdle
    /\ sample = <<>> /\ threshold = F(0) /\ multiplier = F(0)
    /\ self = None /\ mesh_data = <<>>

\* the jobs handed to save_job: any status, with no completion time, with
\* the datetime of a tick of the clock, or with a string
StoredIds == {JobId("http", "baseline", Datetime(t, "")) : t \in 0..1}
CompletionTimes ==
    {None, Some(OtherString), Some(NotAString)}
      \cup {Some(Datetime(t, "")) : t \in 0..MaxTime}
      \cup {Some(IsoString(t, "")) : t \in 0..MaxTime}
StoredJobs(job_id) ==
    {[NewJob(job_id, job_id[1], job_id[2], Datetime(job_id[3], ""))
        EXCEPT !.status = st, !.completed_at = c] :
       st \in {"pending", "running", "completed", "failed"},
       c \in CompletionTimes}

InitPersist ==
    /\ running_jobs = <<>> /\ tasks = <<>> /\ files = {}
    /\ now \in 0..MaxTime /\ response = {} /\ stored = <<>>
    /\ days \in 0..MaxDays
    /\ pc = "persist"
    /\ outcome = None
    /\ results = <<>> /\ aggregated = <<>>
    /\ CmpIdle
    /\ sample = <<>> /\ threshold = F(0) /\ multiplier = F(0)
    /\ self = None /\ mesh_data = <<>>

InitStats ==
    /\ sample \in SeqsUpTo(StatValues, MaxSample)
    /\ threshold = F(0) /\ multiplier = F(0)
    /\ self = None /\ mesh_data = <<>> /\ outcome = None
    /\ pc = "describe"
    /\ AggIdle
    /\ ApiIdle
    /\ CmpIdle

Next == NextAgg

\* aggregate_metrics over records with varied labels
Spec == Init /\ [][Next]_vars
\* aggregate_metrics over records with varied metrics
SpecSeries == InitSeries /\ [][NextAgg]_vars
\* aggregate_metrics over records with non-finite values
SpecNonFinite == InitNonFinite /\ [][NextAgg]_vars
\* compare_two_samples
SpecCmp == InitCmp /\ [][NextCmp]_vars

SpecStats == InitStats /\ [][NextStats]_vars

SpecOutliers == InitOutliers /\ [][NextOutliers]_vars

SpecFields == InitFields /\ [][NextFields]_vars

SpecAnova == InitAnova /\ [][NextAnova]_vars

\* a later call of aggregate_metrics, on records of its own; what the earlier
\* call returned stays with its caller
CallAgain ==
    /\ pc \in {"done", "raised"}
    /\ results' \in SeqsUpTo(CallRecords, MaxCallRuns)
    /\ pc' = "start"
    /\ UNCHANGED <<aggregated, cmpVars, argVars, apiVars, outcome>>

NextCalls == Group \/ Stats \/ Compare \/ CallAgain

SpecCalls == InitCalls /\ [][NextCalls]_vars

SpecReport == InitReport /\ [][NextReport]_vars

NextJobs ==
    \/ \E test_type \in TestTypes : StartBenchmark(test_type, "baseline")
    \/ \E k \in 1..MaxJobs : RunBenchmarkScript(k)
    \/ \E k \in 1..MaxJobs : ScriptWritesResult(k)
    \/ \E k \in 1..MaxJobs : ProcessEnded(k)
    \/ \E job_id \in DOMAIN running_jobs : CancelJob(job_id)
    \/ \E job_id \in DOMAIN running_jobs : GetJobStatus(job_id)
    \/ ListJobs
    \/ Tick

\* the benchmark endpoints, the background tasks and the clock
SpecJobs == InitJobs /\ [][NextJobs]_vars

NextPersist ==
    \/ \E job_id \in StoredIds :
         \E job_data \in StoredJobs(job_id) : SaveJob(job_id, job_data)
    \/ CleanupOldJobs
    \/ Tick

\* save_job and cleanup_old_jobs
SpecPersist == InitPersist /\ [][NextPersist]_vars

----------------------------------------------------------------------------
(* Vocabulary of the claims. *)

Returned == pc = "done"
Keys == DOMAIN aggregated
Indices == 1..Len(results)
TestTypeOf(i) == get(results[i], "test_type", "unknown")
MeshTypeOf(i) == get(results[i], "mesh_type", "baseline")
InRuns(key, i) == \E j \in 1..Len(aggregated[key].runs) : aggregated[key].runs[j] = i
Populated(field) == Len(field) = 1
Series(key, metric) == Extract(results, aggregated[key].runs, metric)
ComparisonField(key, metric) ==
    IF metric = "requests_per_sec" THEN aggregated[key].throughput_comparison
    ELSE aggregated[key].latency_comparison
StatsField(key, metric) ==
    IF metric = "requests_per_sec" THEN aggregated[key].throughput_stats
    ELSE aggregated[key].latency_stats
MetricNames == {"requests_per_sec", "avg_latency_ms"}

\* the values of a metric over the input records labelled (test_type,
\* "baseline"), in input order
RECURSIVE BaselineValues(_, _, _)
BaselineValues(i, test_type, metric) ==
    IF i > Len(results) THEN <<>>
    ELSE (IF TestTypeOf(i) = test_type /\ MeshTypeOf(i) = "baseline"
             /\ CarriesMetric(results[i], metric)
          THEN <<results[i]["metrics"][metric]>> ELSE <<>>)
         \o BaselineValues(i + 1, test_type, metric)

\* the records of a group that have a metrics mapping with the metric's key
HasMetricKey(i, metric) ==
    "metrics" \in DOMAIN results[i] /\ metric \in DOMAIN results[i]["metrics"]
CarrierCount(key, metric) ==
    Cardinality({j \in 1..Len(aggregated[key].runs) :
                    HasMetricKey(aggregated[key].runs[j], metric)})

----------------------------------------------------------------------------
(* Claims about aggregate_metrics. *)

\* C1: in the returned mapping a group's throughput_comparison is populated
\* exactly when the group is not a baseline group, a group with the same
\* test_type and mesh_type "baseline" exists, and both throughput series have
\* at least 2 observations; likewise latency_comparison over the latency
\* series.
C1_ComparisonExactlyWhenBaselineAndTwo ==
    Returned =>
      \A key \in Keys : \A metric \in MetricNames :
        Populated(ComparisonField(key, metric)) <=>
          /\ aggregated[key].mesh_type # "baseline"
          /\ Len(Series(key, metric)) >= 2
          /\ \E b \in Keys :
               /\ aggregated[b].test_type = aggregated[key].test_type
               /\ aggregated[b].mesh_type = "baseline"
               /\ Len(Series(b, metric)) >= 2

\* C2: the groups partition the records by (test_type, mesh_type): every
\* record is in the runs of exactly one group, two records share a group
\* exactly when both labels are equal, and a group's labels are those of each
\* of its runs.
C2_GroupsPartitionByLabels ==
    Returned =>
      /\ \A i \in Indices : Cardinality({key \in Keys : InRuns(key, i)}) = 1
      /\ \A i, j \in Indices :
           (\E key \in Keys : InRuns(key, i) /\ InRuns(key, j))
             <=> (TestTypeOf(i) = TestTypeOf(j) /\ MeshTypeOf(i) = MeshTypeOf(j))
      /\ \A key \in Keys : \A i \in Indices :
           InRuns(key, i) =>
             /\ aggregated[key].test_type = TestTypeOf(i)
             /\ aggregated[key].mesh_type = MeshTypeOf(i)

\* C3: the baseline side of a comparison attached to group G is the sample of
\* exactly the records with G's test_type and mesh_type "baseline".
C3_BaselineSideFromOwnBaseline ==
    Returned =>
      \A key \in Keys : \A metric \in MetricNames :
        Populated(ComparisonField(key, metric)) =>
          LET own == BaselineValues(1, aggregated[key].test_type, metric)
          IN  /\ own # <<>>
              /\ ComparisonField(key, metric)[1].baseline_stats
                   = DescriptiveStatistics(own)

\* C4: a NaN or infinite value never makes aggregate_metrics raise; every
\* group whose series are finite keeps its statistics.
C4_NonFiniteNeverRaises ==
    /\ pc # "raised"
    /\ Returned =>
         \A key \in Keys : \A metric \in MetricNames :
           (Series(key, metric) # <<>> /\ ~HasNonFinite(Series(key, metric)))
             => Populated(StatsField(key, metric))

\* C5: a group's p95_latency and p99_latency equal the p95 and p99 of its
\* latency_stats.
C5_PercentilesAgree ==
    Returned =>
      \A key \in Keys :
        Populated(aggregated[key].latency_stats) =>
          /\ aggregated[key].p95_latency = Some(aggregated[key].latency_stats[1].p95)
          /\ aggregated[key].p99_latency = Some(aggregated[key].latency_stats[1].p99)

\* C7: a series holds one observation for every record of the group that has
\* a metrics mapping with the metric's key, whatever the value: sample_size
\* is the number of such records, and the statistics are unset only when
\* there is none.
C7_SeriesCountsEveryCarrier ==
    Returned =>
      \A key \in Keys : \A metric \in MetricNames :
        IF CarrierCount(key, metric) = 0
        THEN ~Populated(StatsField(key, metric))
        ELSE /\ Populated(StatsField(key, metric))
             /\ StatsField(key, metric)[1].sample_size = CarrierCount(key, metric)

C9_BaselineNeverCompared ==
    Returned =>
      \A key \in Keys :
        aggregated[key].mesh_type = "baseline" =>
          /\ ~Populated(aggregated[key].throughput_comparison)
          /\ ~Populated(aggregated[key].latency_comparison)

C9_Witness ==
    /\ Returned
    /\ \E b, key \in Keys :
         /\ aggregated[b].mesh_type = "baseline"
         /\ Len(aggregated[b].runs) >= 2
         /\ \E i \in Indices : InRuns(b, i) /\ "mesh_type" \notin DOMAIN results[i]
         /\ aggregated[key].mesh_type = "istio"
         /\ aggregated[key].test_type = aggregated[b].test_type
         /\ Populated(aggregated[key].throughput_comparison)
         /\ ~Populated(aggregated[b].throughput_comparison)

----------------------------------------------------------------------------
(* Claims about compare_two_samples. *)

CmpReturned == pc = "returned" /\ ~Raised(comparison)
Reverse == compare_two_samples(mesh, baseline, equal_variance)
IsConstant(s) == \A i, j \in 1..Len(s) : s[i] = s[j]

\* C6 as stated: the percent_difference of (A, B) is the negation of the
\* percent_difference of (B, A).
C6_PercentDifferenceNegated ==
    CmpReturned =>
      percent_difference(Value(comparison))
        = Neg(percent_difference(Value(Reverse)))

\* C6 as amended: when the two samples have equal means, the
\* percent_difference of (A, B) is the negation of that of (B, A): both are 0.
C6_PercentDifferenceNegatedForEqualMeans ==
    (CmpReturned /\ Mean(baseline) = Mean(mesh)) =>
      /\ percent_difference(Value(comparison))
           = Neg(percent_difference(Value(Reverse)))
      /\ percent_difference(Value(comparison)) = F(0)

C6_Witness ==
    /\ CmpReturned
    /\ Mean(baseline) = Mean(mesh)
    /\ ~IsZero(Mean(baseline))
    /\ Len(baseline) # Len(mesh)
    /\ percent_difference(Value(comparison)) = F(0)

\* C10: on two constant samples of at least 2 finite observations each
\* compare_two_samples returns with cohens_d = 0, with equal_variance or
\* without, and no call on finite samples of size >= 2 ends in a division by
\* zero.
C10_ConstantSamplesGiveZeroEffect ==
    (pc = "returned" /\ Len(baseline) >= 2 /\ Len(mesh) >= 2
       /\ ~HasNonFinite(baseline) /\ ~HasNonFinite(mesh)) =>
      /\ comparison.exc # "ZeroDivisionError"
      /\ (IsConstant(baseline) /\ IsConstant(mesh)) =>
           /\ ~Raised(comparison)
           /\ IsZero(Value(comparison).cohens_d.num)

\* C11: compare_two_samples raises the ValueError "Each sample must have at
\* least 2 observations" exactly when the baseline or the mesh sample has
\* fewer than 2 observations, whatever else the samples hold (the size check
\* comes before any computation), and every comparison it returns reports a
\* sample_size of at least 2 on both sides.
C11_TooFewObservationsRaiseFirst ==
    pc = "returned" =>
      /\ (/\ comparison.exc = "ValueError"
          /\ comparison.msg = "Each sample must have at least 2 observations")
           <=> (Len(baseline) < 2 \/ Len(mesh) < 2)
      /\ ~Raised(comparison) =>
           /\ Value(comparison).baseline_stats.sample_size >= 2
           /\ Value(comparison).mesh_stats.sample_size >= 2

C11_Witness ==
    /\ pc = "returned"
    /\ Len(baseline) = 1 /\ HasNonFinite(baseline)
    /\ Len(mesh) >= 2
    /\ comparison.msg = "Each sample must have at least 2 observations"

----------------------------------------------------------------------------
(* Claims about calculate_descriptive_statistics. *)

Described == pc = "described" /\ ~Raised(outcome)

\* C12: calculate_descriptive_statistics raises ValueError exactly when the
\* sample is empty or holds a NaN or an infinite value, and then produces
\* no record; otherwise it returns the statistics of all the values it was
\* given, none dropped.
C12_InvalidInputRaises ==
    pc = "described" =>
      /\ (outcome.exc = "ValueError")
           <=> (sample = <<>> \/ \E i \in 1..Len(sample) : ~isfinite(sample[i]))
      /\ outcome.exc \in {"", "ValueError"}
      /\ Raised(outcome) => outcome.val = <<>>
      /\ ~Raised(outcome) =>
           /\ Value(outcome).sample_size = Len(sample)
           /\ \A i \in 1..Len(sample) :
                /\ Le(Value(outcome).min_value, sample[i])
                /\ Le(sample[i], Value(outcome).max_value)

C12_Witness ==
    /\ pc = "described"
    /\ Len(sample) = 3
    /\ isfinite(sample[1]) /\ isinf(sample[2]) /\ isfinite(sample[3])
    /\ outcome.exc = "ValueError"

\* C14: the statistics returned for a non-empty finite sample are ordered:
\* min <= p25 <= median <= p75 <= max and p75 <= p90 <= p95 <= p99 <= max.
C14_PercentilesOrdered ==
    Described =>
      LET st == Value(outcome)
      IN  /\ Le(st.min_value, st.p25)
          /\ Le(st.p25, st.median)
          /\ Le(st.median, st.p75)
          /\ Le(st.p75, st.max_value)
          /\ Le(st.p75, st.p90)
          /\ Le(st.p90, st.p95)
          /\ Le(st.p95, st.p99)
          /\ Le(st.p99, st.max_value)

C14_Witness ==
    /\ Described
    /\ Len(sample) = 4
    /\ Lt(Value(outcome).min_value, Value(outcome).p25)
    /\ Lt(Value(outcome).p25, Value(outcome).median)
    /\ Lt(Value(outcome).median, Value(outcome).p75)
    /\ Lt(Value(outcome).p75, Value(outcome).p90)
    /\ Lt(Value(outcome).p90, Value(outcome).p95)
    /\ Lt(Value(outcome).p95, Value(outcome).p99)
    /\ Lt(Value(outcome).p99, Value(outcome).max_value)

----------------------------------------------------------------------------
(* Claims about the outlier detectors. *)

Detected == pc \in {"iqr", "zscore"}
Analysis == Value(outcome)
\* the value lies strictly outside [lower_bound, upper_bound]
Outside(x, analysis) ==
    \/ SurdLt(Rat(x), analysis.lower_bound)
    \/ SurdLt(analysis.upper_bound, Rat(x))

C15_ZscoreUsesTheSampleDeviation ==
    (pc = "zscore" /\ Len(sample) >= 2) =>
      LET st == DescriptiveStatistics(sample)
          flagged == {i \in 1..Len(sample) :
                        Lt(Mul(Mul(threshold, threshold), st.std_dev_sq),
                           Mul(Sub(sample[i], st.mean), Sub(sample[i], st.mean)))}
      IN  /\ {Analysis.outlier_indices[j] + 1 : j \in 1..Analysis.outliers_count}
               = flagged
          /\ SurdSign(Analysis.lower_bound,
                      Surd(st.mean, Neg(threshold), st.std_dev_sq)) = 0
          /\ SurdSign(Analysis.upper_bound,
                      Surd(st.mean, threshold, st.std_dev_sq)) = 0

----------------------------------------------------------------------------
(* Claims about the computed fields of a StatisticalComparison. *)

\* |cohens_d| of the object at hand, whose den_sq is 1 or 4
AbsD ==
    NpDiv(AbsF(self[1].cohens_d.num),
          IF self[1].cohens_d.den_sq = F(4) THEN F(2) ELSE F(1))
Negated(obj) ==
    [obj EXCEPT !.cohens_d = [num |-> Neg(@.num), den_sq |-> @.den_sq]]
Exchanged(obj) ==
    [obj EXCEPT !.baseline_stats = obj.mesh_stats,
                !.mesh_stats = obj.baseline_stats]

C19_OverlapUnlessApart ==
    pc = "overlap" =>
      LET b == self[1].baseline_stats
          m == self[1].mesh_stats
          \* distance / 1.96 > sqrt(b.se_sq) + sqrt(m.se_sq), through squares
          D == NpDiv(AbsF(Sub(m.mean, b.mean)), Frac(196, 100))
          G == Sub(Sub(Mul(D, D), b.standard_error_sq), m.standard_error_sq)
          apart == /\ Lt(F(0), G)
                   /\ Lt(Mul(F(4), Mul(b.standard_error_sq, m.standard_error_sq)),
                         Mul(G, G))
      IN  /\ Value(outcome) = ~apart
          /\ Value(outcome) = confidence_intervals_overlap(Exchanged(self[1]))

\* the upper end of the baseline's interval is the lower end of the mesh's
C19_Witness ==
    /\ pc = "overlap"
    /\ self[1].baseline_stats = [mean |-> F(0), standard_error_sq |-> F(1)]
    /\ self[1].mesh_stats = [mean |-> Frac(392, 100), standard_error_sq |-> F(1)]
    /\ Value(outcome) = TRUE

----------------------------------------------------------------------------
(* Claims about compare_two_samples with its arguments exchanged. *)

\* C13: when compare_two_samples(A, B) returns, compare_two_samples(B, A)
\* returns too, with cohens_d the exact negation, the same p_value (the same
\* |t| and degrees of freedom of the test), the same
\* effect_size_interpretation and the same confidence_intervals_overlap.
C13_ExchangeNegatesTheEffect ==
    CmpReturned =>
      LET reverse == Reverse
          ab == Value(comparison)
          ba == Value(reverse)
      IN  /\ ~Raised(reverse)
          /\ ba.cohens_d.num = Neg(ab.cohens_d.num)
          /\ ba.cohens_d.den_sq = ab.cohens_d.den_sq
          /\ ba.p_value = ab.p_value
          /\ effect_size_interpretation(ba) = effect_size_interpretation(ab)
          /\ confidence_intervals_overlap(ba) = confidence_intervals_overlap(ab)

C13_Witness ==
    /\ CmpReturned
    /\ Len(baseline) # Len(mesh)
    /\ ~IsConstant(baseline)
    /\ Lt(F(0), Value(comparison).cohens_d.num)
    /\ effect_size_interpretation(Value(comparison)) = "medium"
    /\ confidence_intervals_overlap(Value(comparison))
    /\ isfinite(Value(comparison).p_value.t_sq)

----------------------------------------------------------------------------
(* Claims about compare_multiple_meshes. *)

GroupCount == Len(mesh_data)
\* the observations of all groups, one pair (group, position) each
Observations ==
    UNION { {<<i, j>> : j \in 1..Len(mesh_data[i][2])} : i \in 1..GroupCount }
AllGroupsValid ==
    \A i \in 1..GroupCount :
      mesh_data[i][2] # <<>> /\ ~HasNonFinite(mesh_data[i][2])

\* C20: for k >= 2 groups of non-empty finite samples with n observations in
\* all, compare_multiple_meshes returns degrees_of_freedom_between = k - 1,
\* degrees_of_freedom_within = n - k and group_statistics keyed by exactly
\* the supplied names, each name mapped to the DescriptiveStatistics of its
\* own sample.
C20_AnovaDegreesOfFreedomAndGroups ==
    (pc = "compared" /\ GroupCount >= 2 /\ AllGroupsValid) =>
      /\ ~Raised(outcome)
      /\ Value(outcome).degrees_of_freedom_between = GroupCount - 1
      /\ Value(outcome).degrees_of_freedom_within
           = Cardinality(Observations) - GroupCount
      /\ DOMAIN Value(outcome).group_statistics
           = {mesh_data[i][1] : i \in 1..GroupCount}
      /\ \A i \in 1..GroupCount :
           Value(outcome).group_statistics[mesh_data[i][1]]
             = DescriptiveStatistics(mesh_data[i][2])

C20_Witness ==
    /\ pc = "compared"
    /\ GroupCount = 3
    /\ AllGroupsValid
    /\ Len(mesh_data[1][2]) = 1
    /\ Len(mesh_data[2][2]) = 2
    /\ mesh_data[2][2] # mesh_data[3][2]
    /\ Value(outcome).degrees_of_freedom_within = 2

\* C21: compare_multiple_meshes raises the ValueError "Need at least 2 groups
\* for ANOVA" whenever 0 or 1 group is supplied, whatever the samples hold
\* (nothing is computed before), and never raises that error when 2 or more
\* groups are supplied.
C21_TooFewGroupsRaiseFirst ==
    pc = "compared" =>
      (/\ outcome.exc = "ValueError"
       /\ outcome.msg = "Need at least 2 groups for ANOVA")
        <=> (GroupCount < 2)

C21_Witness ==
    /\ pc = "compared"
    /\ GroupCount = 1
    /\ HasNonFinite(mesh_data[1][2])
    /\ outcome.msg = "Need at least 2 groups for ANOVA"

----------------------------------------------------------------------------
(* Claims about aggregate_metrics and the order and ownership of its input. *)

Orderings(n) ==
    {p \in [1..n -> 1..n] : \A i, j \in 1..n : p[i] = p[j] => i = j}
Reordered(rs, p) == [i \in 1..Len(rs) |-> rs[p[i]]]
\* whether aggregate_metrics(rs) raises, and what it returns when it does not
AggregateRaises(rs) ==
    LET grouped == GroupResults(rs, 1, <<>>)
    IN  \E key \in DOMAIN grouped : StatsRaise(rs, grouped[key])
AggregateOf(rs) ==
    LET grouped == GroupResults(rs, 1, <<>>)
        stats == [key \in DOMAIN grouped |-> WithStats(rs, grouped[key])]
    IN  [key \in DOMAIN stats |-> WithComparisons(rs, stats, key)]

\* C22: the result of aggregate_metrics does not depend on the order of the
\* records: every reordering of the input gives the same group keys, the
\* same test_type and mesh_type per group, the same multiset of observations
\* per series and the same comparisons populated, and a second call on the
\* same input gives the same output.
C22_OrderOfRecordsIsImmaterial ==
    Returned =>
      /\ ~AggregateRaises(results) /\ AggregateOf(results) = aggregated
      /\ \A p \in Orderings(Len(results)) :
           LET rs == Reordered(results, p)
               other == AggregateOf(rs)
           IN  /\ ~AggregateRaises(rs)
               /\ DOMAIN other = Keys
               /\ \A key \in Keys :
                    /\ other[key].test_type = aggregated[key].test_type
                    /\ other[key].mesh_type = aggregated[key].mesh_type
                    /\ \A metric \in MetricNames :
                         sorted(Extract(rs, other[key].runs, metric))
                           = sorted(Series(key, metric))
                    /\ Populated(other[key].throughput_comparison)
                         = Populated(aggregated[key].throughput_comparison)
                    /\ Populated(other[key].latency_comparison)
                         = Populated(aggregated[key].latency_comparison)

\* the (group, position) places of the returned runs
RunPlaces ==
    UNION { {<<key, j>> : j \in 1..Len(aggregated[key].runs)} : key \in Keys }

\* C23: aggregate_metrics leaves its input unchanged (from the start of a call
\* to its end the list of records and every record's keys and values stay as
\* given) and keeps no state between calls: the runs of the mapping a call
\* returns are that call's records, each exactly once, every group holds
\* one of them, and none is carried over from an earlier call.
C23_InputUntouchedAndNothingCarriedOver ==
    /\ [](Returned =>
            /\ \A key \in Keys : aggregated[key].runs # <<>>
            /\ \A place \in RunPlaces :
                 aggregated[place[1]].runs[place[2]] \in Indices
            /\ \A i \in Indices :
                 Cardinality({place \in RunPlaces :
                                aggregated[place[1]].runs[place[2]] = i}) = 1)
    /\ [][pc \notin {"done", "raised"} => results' = results]_vars

\* a second call has returned, on other records than the first
C23_Witness ==
    /\ Returned
    /\ Len(results) = 1
    /\ "total_requests" \in DOMAIN results[1]["metrics"]
    /\ Cardinality(Keys) = 1
    /\ \E key \in Keys : aggregated[key].mesh_type = "istio"

----------------------------------------------------------------------------
(* Claims about generate_statistical_report. *)

Reported == pc = "reported" /\ ~Raised(outcome)
ValidSample(s) == Len(s) >= 2 /\ \A i \in 1..Len(s) : isfinite(s[i])
IsErrorMarker(entry) == DOMAIN entry = {"error"}

\* C24: for a non-empty finite baseline and any dict of meshes
\* generate_statistical_report returns a report whose pairwise_comparisons
\* has exactly one entry per mesh name: the comparison of the baseline with
\* that mesh's sample when both have at least 2 finite observations, an
\* {"error": ...} marker otherwise, whatever the other meshes' samples are.
C24_OneEntryPerMesh ==
    (pc = "reported" /\ baseline # <<>> /\ ~HasNonFinite(baseline)) =>
      /\ ~Raised(outcome)
      /\ DOMAIN Value(outcome).pairwise_comparisons
           = {mesh_data[i][1] : i \in 1..Len(mesh_data)}
      /\ \A i \in 1..Len(mesh_data) :
           LET entry == Value(outcome).pairwise_comparisons[mesh_data[i][1]]
           IN  IF ValidSample(baseline) /\ ValidSample(mesh_data[i][2])
               THEN /\ ~IsErrorMarker(entry)
                    /\ entry = Value(compare_two_samples(baseline,
                                                         mesh_data[i][2], TRUE))
               ELSE IsErrorMarker(entry)

\* one mesh's comparison fails, the other's is there
C24_Witness ==
    /\ Reported
    /\ Len(mesh_data) = 2
    /\ IsErrorMarker(Value(outcome).pairwise_comparisons[mesh_data[1][1]])
    /\ ~IsErrorMarker(Value(outcome).pairwise_comparisons[mesh_data[2][1]])
    /\ Value(outcome).pairwise_comparisons[mesh_data[2][1]].mesh_stats.sample_size = 2

----------------------------------------------------------------------------
(* Claims about the degrees of freedom of compare_two_samples. *)

ValidPair == ValidSample(baseline) /\ ValidSample(mesh)

\* the Welch-Satterthwaite value of the two samples, as an exact fraction
WelchValue ==
    LET a == NpDiv(Var(baseline), F(Len(baseline)))
        b == NpDiv(Var(mesh), F(Len(mesh)))
    IN  NpDiv(Mul(Add(a, b), Add(a, b)),
              Add(NpDiv(Mul(a, a), F(Len(baseline) - 1)),
                  NpDiv(Mul(b, b), F(Len(mesh) - 1))))

MinSize == IF Len(baseline) <= Len(mesh) THEN Len(baseline) ELSE Len(mesh)

\* C25: on two samples of at least 2 finite observations compare_two_samples
\* reports degrees_of_freedom = n1 + n2 - 2 with equal_variance, and without
\* it reports the Welch-Satterthwaite value truncated toward zero, an integer
\* between min(n1, n2) - 1 and n1 + n2 - 2.
C25_DegreesOfFreedom ==
    (pc = "returned" /\ ValidPair) =>
      /\ ~Raised(comparison)
      /\ LET df == Value(comparison).degrees_of_freedom
         IN  IF equal_variance
             THEN df = Len(baseline) + Len(mesh) - 2
             ELSE /\ df = Trunc(WelchValue)
                  /\ MinSize - 1 <= df
                  /\ df <= Len(baseline) + Len(mesh) - 2

----------------------------------------------------------------------------
(* Claims about the finiteness of the statistics. *)

\* c + k * sqrt(r) is a finite float
SurdFinite(x) == isfinite(x.c) /\ isfinite(x.k) /\ isfinite(x.r)

\* C26: for every non-empty sample of finite values, one observation
\* included, calculate_descriptive_statistics returns a record whose numeric
\* fields, std_dev, variance, standard_error, coefficient_of_variation and
\* the two bounds of confidence_interval_95 included, are all finite.
C26_EveryFieldFinite ==
    (pc = "described" /\ sample # <<>> /\ ~HasNonFinite(sample)) =>
      /\ ~Raised(outcome)
      /\ LET st == Value(outcome)
         IN  /\ \A field \in {"mean", "median", "std_dev_sq", "variance",
                              "min_value", "max_value", "p25", "p75", "p90",
                              "p95", "p99", "standard_error_sq"} :
                  isfinite(st[field])
             /\ SurdFinite(st.coefficient_of_variation)
             /\ SurdFinite(confidence_interval_95(st)[1])
             /\ SurdFinite(confidence_interval_95(st)[2])

----------------------------------------------------------------------------
(* Claims about the job table. *)

Finished(job) == job.status \in {"completed", "failed"}

\* C27: in every state of the job table that a status request can see, and
\* in every answer to one, a job whose status is "completed" or "failed" has
\* a completed_at.
C27_FinishedJobsHaveCompletionTime ==
    /\ \A job_id \in DOMAIN running_jobs :
         Finished(running_jobs[job_id]) => running_jobs[job_id].completed_at # None
    /\ \A job \in response : Finished(job) => job.completed_at # None

\* a status request is answered with a completed job while another
\* background task is still under way
C27_Witness ==
    /\ \E job \in response : job.status = "completed" /\ job.completed_at # None
    /\ \E k \in 1..Len(tasks) : tasks[k].pc = "communicate"

\* the status changes of a job that stays in the table
StatusSteps ==
    { <<"pending", "running">>, <<"running", "completed">>,
      <<"running", "failed">>, <<"pending", "failed">> }

\* a step of a background task
TaskStep == Len(tasks') = Len(tasks) /\ tasks' # tasks

\* C28: the status of a job id goes pending -> running -> completed or
\* failed, or pending -> failed; once it is completed or failed it changes
\* no more, whatever start_benchmark, the background tasks and cancel_job do;
\* and no step of a background task puts a job into the table.
C28_StatusLifecycle ==
    [][ /\ \A job_id \in DOMAIN running_jobs \cap DOMAIN running_jobs' :
             \/ running_jobs'[job_id].status = running_jobs[job_id].status
             \/ <<running_jobs[job_id].status, running_jobs'[job_id].status>>
                  \in StatusSteps
        /\ TaskStep => DOMAIN running_jobs' \subseteq DOMAIN running_jobs ]_vars

\* C29: the result_file of a job marked "completed" is a result file written
\* by the script run of that job, not a file of another job, a file of an
\* earlier run or any other file of the results directory.
C29_ResultFileIsTheJobsOwn ==
    \A job_id \in DOMAIN running_jobs :
      running_jobs[job_id].status = "completed" =>
        /\ running_jobs[job_id].result_file # None
        /\ LET latest_result == running_jobs[job_id].result_file[1]
           IN  /\ latest_result.kind = "result"
               /\ tasks[latest_result.task].job_id = job_id

----------------------------------------------------------------------------
(* Claims about JobPersistence. *)

\* a stored job the claim has removed: finished, with a completed_at that
\* save_job wrote from a datetime not later than the cutoff
OldFinished(job_data) ==
    /\ Finished(job_data)
    /\ job_data.completed_at # None
    /\ job_data.completed_at[1].text = "iso"
    /\ job_data.completed_at[1].suffix = "Z"
    /\ job_data.completed_at[1].ticks <= now - days

\* C30: cleanup_old_jobs(days) removes from the stored jobs exactly the
\* completed or failed ones whose completed_at, as save_job wrote it, is not
\* later than the cutoff, leaves every other stored job as it was, and
\* returns the number of jobs it removed without raising.
C30_CleanupRemovesExactlyTheOldFinishedJobs ==
    [][ (pc = "persist" /\ pc' = "cleaned") =>
          /\ ~Raised(outcome')
          /\ stored' = [job_id \in {id \in DOMAIN stored : ~OldFinished(stored[id])}
                          |-> stored[job_id]]
          /\ Value(outcome') = Cardinality(DOMAIN stored) - Cardinality(DOMAIN stored') ]_vars

====
